---- MODULE Spec2Model ----
(***************************************************************************)
(* Watch mode of rustlings (src/src/main.rs): the orchestrator loop of     *)
(* watch(), the interactive shell thread of spawn_watch_shell(), the       *)
(* exercise files on disk, and the verification pass verify() that both    *)
(* `rustlings verify` and `rustlings watch` call.                          *)
(***************************************************************************)
EXTENDS Integers, Sequences, FiniteSets, TLC

\* Longest batch of debounced events one recv_timeout() delivers.
MaxBatch == 2

(***************************************************************************)
(* Paths.  A path is a sequence of components; a component is the sequence *)
(* of its dot-separated parts, so <<"ex1", "rs">> is the file ex1.rs.      *)
(***************************************************************************)
Ex1Path == << <<"exercises">>, <<"ex1", "rs">> >>
Ex2Path == << <<"exercises">>, <<"ex2", "rs">> >>
Ex3Path == << <<"exercises">>, <<"ex3", "rs">> >>

\* The registry: ExerciseList::parse()?.exercises, in its fixed order.
exercises ==
    << [name |-> "ex1", path |-> Ex1Path, hint |-> "hint1"],
       [name |-> "ex2", path |-> Ex2Path, hint |-> "hint2"],
       [name |-> "ex3", path |-> Ex3Path, hint |-> "hint3"] >>

ExIds == 1 .. Len(exercises)

\* The watcher reports absolute paths below the working directory.
Abs(p) == << <<"home">> >> \o p

ScratchRs == << <<"home">>, <<"exercises">>, <<"scratch", "rs">> >>
Ex1Md     == << <<"home">>, <<"exercises">>, <<"ex1", "md">> >>

\* DebouncedEvent { path, kind }
DebouncedEvents ==
    { [path |-> Abs(Ex1Path), kind |-> "Any"],
      [path |-> Abs(Ex2Path), kind |-> "Any"],
      [path |-> ScratchRs, kind |-> "Any"],
      [path |-> Ex1Md, kind |-> "Any"],
      [path |-> Abs(Ex1Path), kind |-> "AnyContinuous"] }

RECURSIVE SeqsUpTo(_, _)
SeqsUpTo(S, n) ==
    IF n = 0 THEN { <<>> }
    ELSE LET shorter == SeqsUpTo(S, n - 1)
         IN  shorter \cup { Append(s, x) : s \in { t \in shorter : Len(t) = n - 1 }, x \in S }

\* The batches a debounce window can deliver: one event or more.
Batches == SeqsUpTo(DebouncedEvents, MaxBatch) \ { <<>> }

\* Path::extension(): the part after the last dot of the file name, if any.
Extension(p) ==
    IF p = <<>> THEN "None"
    ELSE LET file == p[Len(p)]
         IN  IF Len(file) >= 2 /\ file[1] # "" THEN file[Len(file)] ELSE "None"

\* Path::ends_with(child): child's components are the last components of p.
EndsWith(p, child) ==
    /\ Len(child) <= Len(p)
    /\ SubSeq(p, Len(p) - Len(child) + 1, Len(p)) = child

(***************************************************************************)
(* The exercise files.  looks is what Exercise::looks_done() returns on    *)
(* the file as it is now: Ok(true), Ok(false) or Err; passes is what the   *)
(* compile+test operation reports on it.  A file is solved, broken (it     *)
(* looks done and fails), unsolved, or unreadable; an exercise that does   *)
(* not look done is not one that passes.                                   *)
(***************************************************************************)
Looks == { "done", "notdone", "ioerr" }
FileStates == { f \in [looks : Looks, passes : BOOLEAN] : f.passes => f.looks = "done" }

Solved   == [looks |-> "done", passes |-> TRUE]
Unsolved == [looks |-> "notdone", passes |-> FALSE]

VARIABLES
    disk,                  \* ExIds -> FileStates: the files under exercises/
    pc,                    \* where watch() is
    should_quit,           \* Arc<AtomicBool>
    failed_exercise_hint,  \* Arc<Mutex<Option<String>>>: "None" or a hint
    mutex,                 \* who holds the lock of failed_exercise_hint
    pending_exercises,     \* Vec<&Exercise>, as indices into exercises
    events,                \* the batch being iterated: events not yet taken
    event,                 \* the event the for loop is at
    v_exercises,           \* verify(): the sequence it was given
    v_progress,            \* verify(): (num_done, total)
    attempted,             \* verify(): exercises compiled+tested in this pass
    reports,               \* verify(): what compile+test reported for each
    state,                 \* the VerifyState the last pass returned
    received,              \* what rx.recv_timeout() returned
    shell,                 \* where the shell thread is
    input,                 \* the shell's line buffer
    read_error             \* whether read_line returned Err

vars == << disk, pc, should_quit, failed_exercise_hint, mutex, pending_exercises,
           events, event, v_exercises, v_progress, attempted, reports, state,
           received, shell, input, read_error >>

NoEvent == [path |-> <<>>, kind |-> "None"]
NoState == [tag |-> "None", exercise |-> 0]
AllExercisesDone == [tag |-> "AllExercisesDone", exercise |-> 0]
Failed(i) == [tag |-> "Failed", exercise |-> i]

Terminal == { "Finished", "Unfinished", "Err" }

Init ==
    /\ disk \in [ExIds -> FileStates]
    /\ pc = "start"
    /\ should_quit = FALSE
    /\ failed_exercise_hint = "None"
    /\ mutex = "free"
    /\ pending_exercises = <<>>
    /\ events = <<>>
    /\ event = NoEvent
    /\ v_exercises = <<>>
    /\ v_progress = << 0, 0 >>
    /\ attempted = <<>>
    /\ reports = <<>>
    /\ state = NoState
    /\ received = "None"
    /\ shell = "unspawned"
    /\ input = <<>>
    /\ read_error = FALSE

watch_vars == << pc, pending_exercises, events, event, received >>
verify_vars == << v_exercises, v_progress, attempted, reports, state >>
shell_vars == << shell, input, read_error >>

\* The user saves an exercise file while the session runs.  verify()
\* reads the files at one instant, so a file saved while a pass runs is
\* seen as saved after the pass.
EditFile ==
    /\ pc \in { "recv", "for" }
    /\ \E i \in ExIds, f \in FileStates :
          /\ disk[i] # f
          /\ disk' = [disk EXCEPT ![i] = f]
    /\ UNCHANGED << watch_vars, verify_vars, shell_vars, should_quit,
                    failed_exercise_hint, mutex >>

(***************************************************************************)
(* verify(exercises, progress)                                             *)
(***************************************************************************)
\* The exercises verify's loop gets to on the files as they are: those up to
\* and including the first that compile+test fails.
RECURSIVE Attempted(_)
Attempted(seq) ==
    IF seq = <<>> THEN <<>>
    ELSE IF disk[Head(seq)].passes THEN << Head(seq) >> \o Attempted(Tail(seq))
         ELSE << Head(seq) >>

\* A bug: the loop goes on after a failure and the last failure is returned.
RECURSIVE LastFailure(_)
LastFailure(seq) ==
    IF seq = <<>> THEN AllExercisesDone
    ELSE LET rest == LastFailure(Tail(seq))
         IN  IF rest.tag = "Failed" \/ disk[Head(seq)].passes THEN rest
             ELSE Failed(Head(seq))

\* Failed(exercise) at the first failure, AllExercisesDone after the last.
VerifyResult(seq) ==
    LET done == Attempted(seq)
    IN  IF done # <<>> /\ ~ disk[done[Len(done)]].passes
        THEN Failed(done[Len(done)])
        ELSE AllExercisesDone

\* The call: the pass begins.
CallVerify(seq, progress) ==
    /\ v_exercises' = seq
    /\ v_progress' = progress
    /\ attempted' = <<>>
    /\ reports' = <<>>
    /\ UNCHANGED state

\* The pass runs its loop and returns its VerifyState.
VerifyReturns ==
    /\ pc \in { "initial_verify", "verify" }
    /\ attempted' = Attempted(v_exercises)
    /\ reports' = [k \in 1 .. Len(attempted') |-> disk[attempted'[k]].passes]
    /\ state' = VerifyResult(v_exercises)
    /\ pc' = IF pc = "initial_verify" THEN "initial_match" ELSE "match"
    /\ UNCHANGED << disk, should_quit, failed_exercise_hint, mutex, pending_exercises,
                    events, event, received, v_exercises, v_progress, shell_vars >>

\* The frame of verify is gone once its result has been matched.
DropVerify ==
    /\ v_exercises' = <<>>
    /\ v_progress' = << 0, 0 >>
    /\ attempted' = <<>>
    /\ reports' = <<>>
    /\ UNCHANGED state

\* A bug: the hint of the first exercise of the registry instead of the failed one.
HintOfFirst(st) == exercises[1].hint

\* exercise.hint.clone() of the exercise a Failed state carries.
HintOf(st) == exercises[st.exercise].hint

(***************************************************************************)
(* watch(exercises)                                                        *)
(***************************************************************************)
\* new_debouncer(..)? or watcher().watch(..)? fails: watch() returns Err.
WatcherFails ==
    /\ pc = "start"
    /\ pc' = "Err"
    /\ UNCHANGED << disk, should_quit, failed_exercise_hint, mutex, pending_exercises,
                    events, event, received, verify_vars, shell_vars >>

\* The watcher is registered; the initial pass over the whole registry begins.
StartWatch ==
    /\ pc = "start"
    /\ CallVerify([i \in ExIds |-> i], << 0, Len(exercises) >>)
    /\ pc' = "initial_verify"
    /\ UNCHANGED << disk, should_quit, failed_exercise_hint, mutex, pending_exercises,
                    events, event, received, shell_vars >>

\* A bug: the shell is spawned before the match on the initial pass.
InitialMatchSpawnsFirst ==
    /\ pc = "initial_match"
    /\ shell' = "read"
    /\ IF state.tag = "AllExercisesDone"
       THEN /\ pc' = "Finished"
            /\ UNCHANGED << failed_exercise_hint, verify_vars >>
       ELSE /\ failed_exercise_hint' = HintOf(state)
            /\ pc' = "recv"
            /\ DropVerify
    /\ UNCHANGED << disk, should_quit, mutex, pending_exercises, events, event,
                    received, input, read_error >>

\* The match on the initial pass: Finished, or seed the hint and spawn the shell.
InitialMatch ==
    /\ pc = "initial_match"
    /\ IF state.tag = "AllExercisesDone"
       THEN /\ pc' = "Finished"
            /\ UNCHANGED << failed_exercise_hint, shell, verify_vars >>
       ELSE /\ failed_exercise_hint' = HintOf(state)
            /\ shell' = "read"
            /\ pc' = "recv"
            /\ DropVerify
    /\ UNCHANGED << disk, should_quit, mutex, pending_exercises, events, event,
                    received, input, read_error >>

\* rx.recv_timeout(1 s) returns a batch of debounced events.
RecvBatch ==
    /\ pc = "recv"
    /\ \E batch \in Batches : events' = batch
    /\ received' = "Events"
    /\ pc' = "for"
    /\ UNCHANGED << disk, should_quit, failed_exercise_hint, mutex, pending_exercises,
                    event, verify_vars, shell_vars >>

\* A bug: the two errors returned with `?` instead of printed.
RecvOtherFatal ==
    /\ pc = "recv"
    /\ \E r \in { "WatchError", "Timeout", "RecvError" } :
          /\ received' = r
          /\ pc' = IF r = "Timeout" THEN "check" ELSE "Err"
    /\ UNCHANGED << disk, should_quit, failed_exercise_hint, mutex, pending_exercises,
                    events, event, verify_vars, shell_vars >>

\* rx.recv_timeout returns Ok(Err(e)), Err(Timeout) or another Err(e): the two
\* errors are printed, and all three fall through to the should_quit check.
RecvOther ==
    /\ pc = "recv"
    /\ \E r \in { "WatchError", "Timeout", "RecvError" } : received' = r
    /\ pc' = "check"
    /\ UNCHANGED << disk, should_quit, failed_exercise_hint, mutex, pending_exercises,
                    events, event, verify_vars, shell_vars >>

\* A bug: the kind of the event not looked at.
RelevantAnyKind(e) == Extension(e.path) = "rs"

\* event.kind == DebouncedEventKind::Any && extension == "rs"
Relevant(e) == e.kind = "Any" /\ Extension(e.path) = "rs"

\* Bugs the filter closure could have: the touched exercises alone, the
\* unsolved ones alone, a looks_done() error counted as done.
SelectedTouchedOnly(i, e) == EndsWith(e.path, exercises[i].path)

SelectedUnsolvedOnly(i, e) == ~ (disk[i].looks = "done")

SelectedErrorIsDone(i, e) ==
    \/ disk[i].looks = "notdone"
    \/ EndsWith(e.path, exercises[i].path)

\* Another: of the unsolved exercises the next one alone.
SelectedNextUnsolved(i, e) ==
    \/ ~ (disk[i].looks = "done") /\ \A j \in 1 .. i - 1 : disk[j].looks = "done"
    \/ EndsWith(e.path, exercises[i].path)

\* The filter closure of pending_exercises.extend(..): a looks_done() error
\* counts as not done (unwrap_or(false)).
Selected(i, e) ==
    \/ ~ (disk[i].looks = "done")
    \/ EndsWith(e.path, exercises[i].path)

\* The spec's reading as a bug: one set for the whole batch, the union over
\* this event and the events still to come.
FilterExercisesOfBatch(e) ==
    SelectSeq([i \in ExIds |-> i],
              LAMBDA i : \/ Selected(i, e)
                         \/ \E k \in 1 .. Len(events) :
                               Relevant(events[k]) /\ Selected(i, events[k]))

\* A bug: the selected exercises from the last to the first.
FilterExercisesReversed(e) ==
    LET sel == SelectSeq([i \in ExIds |-> i], LAMBDA i : Selected(i, e))
    IN  [k \in 1 .. Len(sel) |-> sel[Len(sel) + 1 - k]]

\* exercises.iter().filter(..): the selected exercises in registry order.
FilterExercises(e) == SelectSeq([i \in ExIds |-> i], LAMBDA i : Selected(i, e))

\* A bug: the pending exercises counted as the done ones.
NumDoneOfPending(pending) == Len(pending)

\* let num_done = exercises.len() - pending_exercises.len();
NumDone(pending) == Len(exercises) - Len(pending)

\* A bug: the flag looked at between the events of a batch, the rest of the
\* batch left where it is.
ForEventBreaksOnQuit ==
    /\ pc = "for"
    /\ IF events = <<>> \/ should_quit
       THEN /\ pc' = "check"
            /\ event' = NoEvent
            /\ UNCHANGED << events, pending_exercises, verify_vars >>
       ELSE /\ events' = Tail(events)
            /\ event' = Head(events)
            /\ IF Relevant(Head(events))
               THEN LET pending == pending_exercises \o FilterExercises(Head(events))
                        num_done == NumDone(pending)
                    IN  /\ pending_exercises' = pending
                        /\ CallVerify(pending, << num_done, Len(exercises) >>)
                        /\ pc' = "verify"
               ELSE UNCHANGED << pc, pending_exercises, verify_vars >>
    /\ UNCHANGED << disk, should_quit, failed_exercise_hint, mutex, received, shell_vars >>

\* One turn of `for event in events`, event bound to the next one of the
\* batch: an irrelevant event is skipped; for a relevant one the pending
\* exercises are collected and a pass over them begins.
ForEvent ==
    /\ pc = "for"
    /\ IF events = <<>>
       THEN /\ pc' = "check"
            /\ event' = NoEvent
            /\ UNCHANGED << events, pending_exercises, verify_vars >>
       ELSE /\ events' = Tail(events)
            /\ event' = Head(events)
            /\ IF Relevant(Head(events))
               THEN LET pending == pending_exercises \o FilterExercises(Head(events))
                        num_done == NumDone(pending)
                    IN  /\ pending_exercises' = pending
                        /\ CallVerify(pending, << num_done, Len(exercises) >>)
                        /\ pc' = "verify"
               ELSE UNCHANGED << pc, pending_exercises, verify_vars >>
    /\ UNCHANGED << disk, should_quit, failed_exercise_hint, mutex, received, shell_vars >>

\* The match on a pass of the loop, AllExercisesDone arm.
MatchDone ==
    /\ pc = "match"
    /\ state.tag = "AllExercisesDone"
    /\ pc' = "Finished"
    /\ UNCHANGED << disk, should_quit, failed_exercise_hint, mutex, pending_exercises,
                    events, event, received, verify_vars, shell_vars >>

\* A bug: the store made without waiting for the mutex.
MatchFailedNoLock ==
    /\ pc = "match"
    /\ state.tag = "Failed"
    /\ mutex' = "watch"
    /\ pc' = "store"
    /\ UNCHANGED << disk, should_quit, failed_exercise_hint, pending_exercises,
                    events, event, received, verify_vars, shell_vars >>

\* Failed arm: failed_exercise_hint.lock() is taken once the mutex is free.
MatchFailedLock ==
    /\ pc = "match"
    /\ state.tag = "Failed"
    /\ mutex = "free"
    /\ mutex' = "watch"
    /\ pc' = "store"
    /\ UNCHANGED << disk, should_quit, failed_exercise_hint, pending_exercises,
                    events, event, received, verify_vars, shell_vars >>

\* A bug: pending_exercises.clear() left out.
StoreHintKeepsPending ==
    /\ pc = "store"
    /\ failed_exercise_hint' = HintOf(state)
    /\ mutex' = "free"
    /\ event' = NoEvent
    /\ DropVerify
    /\ pc' = "for"
    /\ UNCHANGED << disk, should_quit, pending_exercises, events, received, shell_vars >>

\* The hint is stored, the guard dropped, pending_exercises cleared.
StoreHint ==
    /\ pc = "store"
    /\ failed_exercise_hint' = HintOf(state)
    /\ mutex' = "free"
    /\ pending_exercises' = <<>>
    /\ event' = NoEvent
    /\ DropVerify
    /\ pc' = "for"
    /\ UNCHANGED << disk, should_quit, events, received, shell_vars >>

\* Bugs: the flag is looked at after a timeout only; the flag is not looked at.
QuitAfterTimeoutOnly == should_quit /\ received = "Timeout"

QuitNever == FALSE

\* should_quit.load(Ordering::SeqCst)
QuitRequested == should_quit

\* The check at the end of the loop body: return Unfinished, or loop again.
CheckQuit ==
    /\ pc = "check"
    /\ pc' = IF QuitRequested THEN "Unfinished" ELSE "recv"
    /\ received' = IF QuitRequested THEN received ELSE "None"
    /\ UNCHANGED << disk, should_quit, failed_exercise_hint, mutex, pending_exercises,
                    events, event, verify_vars, shell_vars >>

\* A bug: Unfinished taken for a failure of the session.
ExitCodeFinishedOnly(status) == IF status = "Finished" THEN 0 ELSE 1

\* main's match on watch(&exercises): exit(1) on Err; the Ok arms fall
\* through to Ok(()), exit code 0.
ExitCode(status) == IF status = "Err" THEN 1 ELSE 0

(***************************************************************************)
(* The shell thread of spawn_watch_shell.  A line is the sequence of its   *)
(* words and white space.                                                  *)
(***************************************************************************)
WhiteSpace == { " ", "\n" }

Lines ==
    { << "hint", "\n" >>, << "clear", "\n" >>, << "help", "\n" >>,
      << " ", "quit", " ", "\n" >>, << "Quit", "\n" >> }

\* What a failed read_line can leave in the buffer: the valid UTF-8 read so far.
Partial == { <<>>, << "quit" >> }

RECURSIVE TrimStart(_)
TrimStart(s) == IF s # <<>> /\ Head(s) \in WhiteSpace THEN TrimStart(Tail(s)) ELSE s

RECURSIVE TrimEnd(_)
TrimEnd(s) ==
    IF s # <<>> /\ s[Len(s)] \in WhiteSpace THEN TrimEnd(SubSeq(s, 1, Len(s) - 1)) ELSE s

\* str::trim()
Trim(s) == TrimEnd(TrimStart(s))

\* stdin.read_line(&mut input) into the cleared buffer returns Ok.
ReadLine ==
    /\ shell = "read"
    /\ pc \notin Terminal
    /\ \E line \in Lines : input' = line
    /\ read_error' = FALSE
    /\ shell' = "command"
    /\ UNCHANGED << disk, watch_vars, verify_vars, should_quit, failed_exercise_hint, mutex >>

\* read_line returns Err: the error is printed and the loop body goes on.
ReadLineFails ==
    /\ shell = "read"
    /\ pc \notin Terminal
    /\ \E part \in Partial : input' = part
    /\ read_error' = TRUE
    /\ shell' = "command"
    /\ UNCHANGED << disk, watch_vars, verify_vars, should_quit, failed_exercise_hint, mutex >>

\* A bug: the command compared without regard to case.
IsQuitAnyCase(cmd) == cmd \in { << "quit" >>, << "Quit" >> }

\* input == "quit"
IsQuit(cmd) == cmd = << "quit" >>

\* The if-else chain on input.trim(); all but `hint` end the loop body, and
\* the next turn clears the buffer.
Command ==
    /\ shell = "command"
    /\ pc \notin Terminal
    /\ LET cmd == Trim(input)
       IN  IF cmd = << "hint" >>
           THEN /\ shell' = "lock"
                /\ UNCHANGED << should_quit, input, read_error >>
           ELSE /\ shell' = "read"
                /\ should_quit' = IF IsQuit(cmd) THEN TRUE ELSE should_quit
                /\ input' = <<>>
                /\ read_error' = FALSE
    /\ UNCHANGED << disk, watch_vars, verify_vars, failed_exercise_hint, mutex >>

\* `hint`: failed_exercise_hint.lock() is taken once the mutex is free.
HintLock ==
    /\ shell = "lock"
    /\ pc \notin Terminal
    /\ mutex = "free"
    /\ mutex' = "shell"
    /\ shell' = "print"
    /\ UNCHANGED << disk, watch_vars, verify_vars, should_quit, failed_exercise_hint,
                    input, read_error >>

\* The hint is printed under the lock; the guard is dropped after the if-let.
HintPrint ==
    /\ shell = "print"
    /\ pc \notin Terminal
    /\ mutex' = "free"
    /\ shell' = "read"
    /\ input' = <<>>
    /\ read_error' = FALSE
    /\ UNCHANGED << disk, watch_vars, verify_vars, should_quit, failed_exercise_hint >>

\* The two threads.
Program ==
    \/ WatcherFails
    \/ StartWatch
    \/ VerifyReturns
    \/ InitialMatch
    \/ RecvBatch
    \/ RecvOther
    \/ ForEvent
    \/ MatchDone
    \/ MatchFailedLock
    \/ StoreHint
    \/ CheckQuit
    \/ ReadLine
    \/ ReadLineFails
    \/ Command
    \/ HintLock
    \/ HintPrint

Next == EditFile \/ Program

Spec == Init /\ [][Next]_vars

\* The steps of watch() once the watcher is registered.
WatchStep ==
    \/ StartWatch
    \/ VerifyReturns
    \/ InitialMatch
    \/ RecvBatch
    \/ RecvOther
    \/ ForEvent
    \/ MatchDone
    \/ StoreHint
    \/ CheckQuit

\* The main thread keeps running, recv_timeout returns within its second and
\* a pass returns; the shell drops the lock after printing, and the watch
\* thread gets the lock when it keeps coming free.
Fairness ==
    /\ WF_vars(WatchStep)
    /\ SF_vars(MatchFailedLock)
    /\ WF_vars(HintPrint)

\* The session under fair scheduling.
FairSpec == Spec /\ Fairness

\* The session on files that nobody saves meanwhile, under fair scheduling.
QuietFairSpec == Init /\ [][Program]_vars /\ Fairness

(***************************************************************************)
(* Properties.  A state with pc = "verify" is the state ForEvent leaves:   *)
(* the pending exercises have just been collected from the files as they   *)
(* are, for the changed path event.path, and the pass over them runs.      *)
(***************************************************************************)
Range(seq) == { seq[k] : k \in 1 .. Len(seq) }

Touches(e, i) == EndsWith(e.path, exercises[i].path)

\* C1: the pending set built for a changed path contains every exercise
\* whose looks_done() is false, whatever the path is.
C1_UnsolvedArePending ==
    pc = "verify" =>
        \A i \in ExIds : disk[i].looks = "notdone" => i \in Range(pending_exercises)

\* A pass for a path that matches no exercise, with an unsolved exercise
\* next to one that looks done.
C1_Witness ==
    /\ pc = "verify"
    /\ event.path = ScratchRs
    /\ \E i, j \in ExIds : disk[i].looks = "notdone" /\ disk[j].looks = "done"

\* C2: the pending set built for a changed path contains every exercise
\* whose path the changed path ends with, also one that looks done.
C2_TouchedArePending ==
    pc = "verify" =>
        \A i \in ExIds : Touches(event, i) => i \in Range(pending_exercises)

\* A pass for the path of an exercise that looks done.
C2_Witness ==
    /\ pc = "verify"
    /\ \E i \in ExIds : Touches(event, i) /\ disk[i].looks = "done"

ScenarioB ==
    /\ pc = "verify"
    /\ event.path = Abs(Ex1Path)
    /\ disk = << Solved, Unsolved, Unsolved >>

\* C4 as claimed: in scenario B the pending set is ex1, ex2 and ex3 is left out.
C4_ScenarioB_Claimed == ScenarioB => pending_exercises = << 1, 2 >>

\* C4 amended: in scenario B the pending set is ex1, ex2, ex3: ex3 is
\* unsolved and comes in by the unsolved rule like ex2.
C4_ScenarioB == ScenarioB => pending_exercises = << 1, 2, 3 >>

C4_Witness == ScenarioB

\* C5 as claimed: a looks_done() error during the recomputation ends the
\* session, so no pass begins over files with an unreadable one.
C5_ErrorIsFatal ==
    pc = "verify" => \A i \in ExIds : disk[i].looks # "ioerr"

\* C5 amended: a looks_done() error is not propagated; the exercise counts
\* as not done, is in the pending set, and the pass over the set begins.
C5_ErrorIsPending ==
    pc = "verify" =>
        \A i \in ExIds : disk[i].looks = "ioerr" => i \in Range(pending_exercises)

\* A pass that began with an unreadable exercise the changed path does not touch.
C5_Witness ==
    /\ pc = "verify"
    /\ \E i \in ExIds : disk[i].looks = "ioerr" /\ ~ Touches(event, i)


\* C6 as claimed, for the `hint` command: the hint the shell prints under
\* the lock is the hint of the exercise the last returned pass failed on.
C6_HintOfLastFailed ==
    (state.tag = "Failed" /\ shell = "print") =>
        failed_exercise_hint = exercises[state.exercise].hint

\* C6 amended: the shared hint is the hint of the exercise the last returned
\* pass failed on, except between the return of that pass and the store
\* that follows it (the match arm waiting for the lock or holding it).
C6_HintOfLastFailedOnceStored ==
    (state.tag = "Failed" /\ pc \notin { "initial_match", "match", "store" }) =>
        failed_exercise_hint = exercises[state.exercise].hint

\* The shell prints the hint under the lock while the next pass runs.
C6_Witness ==
    /\ shell = "print"
    /\ pc = "verify"
    /\ state.tag = "Failed"
    /\ state.exercise # 1

\* C7 as claimed: once the flag is set while watch() waits in recv_timeout,
\* the session ends in Unfinished and in no other way.
C7_QuitTickEndsUnfinished ==
    []((pc = "recv" /\ should_quit) => [](pc \in Terminal => pc = "Unfinished"))

\* C7 amended: with the flag set, the check at the end of the tick returns
\* Unfinished and watch() does not wait for events again; the tick ends in
\* Finished instead only through a pass that returned AllExercisesDone.
C7_QuitTick ==
    [][should_quit =>
          /\ (pc = "check" /\ pc' # pc) => pc' = "Unfinished"
          /\ pc' = "recv" => pc = "recv"
          /\ (pc' = "Finished" /\ pc' # pc) => (pc = "match" /\ state = AllExercisesDone)
      ]_vars

\* Unfinished after a processed batch, with an exercise still failing.
C7_Witness ==
    /\ pc = "Unfinished"
    /\ received = "Events"
    /\ \E i \in ExIds : ~ disk[i].passes

\* C8: once the flag is set watch() returns, and no tick begins with the
\* flag set: the tick in which it was set is the last.
C8_QuitIsObserved ==
    /\ should_quit ~> (pc \in Terminal)
    /\ [][(pc' = "recv" /\ pc # "recv") => ~ should_quit']_vars

\* The flag was set during a tick that a timeout ended.
C8_Witness ==
    /\ pc = "Unfinished"
    /\ received = "Timeout"

\* C9: when watch() returns Finished every exercise of the registry passes.
C9_FinishedAllPass ==
    pc = "Finished" => \A i \in ExIds : disk[i].passes

Increasing(seq) == \A k \in 1 .. Len(seq) - 1 : seq[k] < seq[k + 1]

\* C10: a pass over a subsequence of the registry in registry order returns
\* Failed(e) for the first e in it that fails compile+test, having attempted
\* the exercises up to e and none after it, and AllExercisesDone exactly
\* when none fails; in the initial pass over the registry and in the
\* passes of the loop.
C10_FirstFailure ==
    pc \in { "initial_match", "match" } =>
        LET failing == { k \in 1 .. Len(v_exercises) : ~ disk[v_exercises[k]].passes }
        IN  /\ Increasing(v_exercises)
            /\ pc = "initial_match" => v_exercises = [i \in ExIds |-> i]
            /\ failing = {} <=> state = AllExercisesDone
            /\ failing = {} => attempted = v_exercises
            /\ failing # {} =>
                   LET first == CHOOSE k \in failing : \A l \in failing : k <= l
                   IN  /\ state = Failed(v_exercises[first])
                       /\ attempted = SubSeq(v_exercises, 1, first)
                       /\ reports = [k \in 1 .. first |-> k < first]

\* A pass of the loop over two of the three exercises that failed on the
\* first and left the second untried.
C10_Witness ==
    /\ pc = "match"
    /\ Len(v_exercises) = 2
    /\ state = Failed(v_exercises[1])
    /\ attempted = << v_exercises[1] >>

\* C11: an initial pass that returns AllExercisesDone makes watch() return
\* Finished at once, with no shell spawned, no batch received and no turn of
\* the loop; one that returns Failed(e) stores the hint of e and then spawns
\* the shell, so that the shared hint is never absent once the shell exists.
C11_Initialization ==
    /\ [](shell # "unspawned" => failed_exercise_hint # "None")
    /\ [](shell = "unspawned" =>
              /\ pc \in { "start", "initial_verify", "initial_match", "Finished", "Err" }
              /\ received = "None"
              /\ events = <<>>)
    /\ [][(pc = "initial_match" /\ pc' # pc) =>
              IF state = AllExercisesDone
              THEN pc' = "Finished" /\ shell' = "unspawned"
              ELSE /\ failed_exercise_hint' = exercises[state.exercise].hint
                   /\ shell' = "read"
                   /\ pc' = "recv"
         ]_vars

\* Finished straight from the initial pass: no shell, nothing received.
C11_Witness ==
    /\ pc = "Finished"
    /\ shell = "unspawned"
    /\ state = AllExercisesDone
    /\ v_exercises = [i \in ExIds |-> i]

\* C12: when the watcher cannot be registered watch() returns the error
\* before any pass, before the shell is spawned and before any turn of the
\* loop; nothing is tried again, and main exits with a non-zero code, while
\* Finished and Unfinished give exit code 0.
C12_WatcherFailure ==
    /\ [](pc = "Err" =>
              /\ state = NoState
              /\ v_exercises = <<>>
              /\ attempted = <<>>
              /\ shell = "unspawned"
              /\ failed_exercise_hint = "None"
              /\ received = "None"
              /\ events = <<>>
              /\ ExitCode(pc) # 0)
    /\ [](pc \in { "Finished", "Unfinished" } => ExitCode(pc) = 0)
    /\ [][pc = "Err" => pc' = "Err"]_vars

\* The registration failed; next to it, a session the user has quit.
C12_Witness ==
    /\ pc = "Err"
    /\ ExitCode(pc) = 1
    /\ ExitCode("Unfinished") = 0

RecvErrors == { "WatchError", "RecvError" }

\* C13: an errored notification (Ok(Err(e))) or a receive error other than
\* the timeout does not end the session: the tick runs no pass, leaves the
\* shared hint and the pending exercises as they were and goes on to the
\* should_quit check, which ends the tick as it ends any other: back to
\* recv_timeout, or Unfinished when the user has quit.
C13_RecvErrorNotFatal ==
    /\ []((received \in RecvErrors) =>
              /\ pc \in { "check", "Unfinished" }
              /\ pending_exercises = <<>>
              /\ v_exercises = <<>>
              /\ attempted = <<>>)
    /\ [][(pc = "recv" /\ received' \in RecvErrors) =>
              /\ pc' = "check"
              /\ UNCHANGED << failed_exercise_hint, pending_exercises, state >>
         ]_vars
    /\ [][(pc = "check" /\ received \in RecvErrors /\ pc' # pc) =>
              /\ pc' = IF should_quit THEN "Unfinished" ELSE "recv"
              /\ UNCHANGED << failed_exercise_hint, pending_exercises, state >>
         ]_vars

\* A tick that got an error is at the should_quit check, the user has not quit.
C13_Witness ==
    /\ pc = "check"
    /\ received = "RecvError"
    /\ ~ should_quit
    /\ failed_exercise_hint # "None"

\* The buffer holds the word quit and around it nothing but white space.
QuitLine(s) ==
    \E k \in 1 .. Len(s) :
        /\ s[k] = "quit"
        /\ \A j \in 1 .. Len(s) : j # k => s[j] \in WhiteSpace

\* C14: should_quit is false at the start and goes from false to true only,
\* never back; the one step that sets it is the shell's command step on a
\* buffer that is `quit` once trimmed, in this case exactly, so every other
\* input leaves it as it is; and no step of the shell writes the shared hint.
C14_QuitFlagWrites ==
    /\ should_quit = FALSE
    /\ [][should_quit => should_quit']_vars
    /\ [][should_quit' # should_quit => (shell = "command" /\ QuitLine(input))]_vars
    /\ [][(shell # "unspawned" /\ shell' # shell) =>
              failed_exercise_hint' = failed_exercise_hint]_vars

\* The flag is set and the session not yet over: the shell reads on.
C14_Witness ==
    /\ should_quit
    /\ shell = "command"
    /\ input = << "Quit", "\n" >>
    /\ pc = "recv"

\* C15: a failed read of the shell's input is reported and the shell goes on
\* to its next read: the failure does not end the shell, does not reach the
\* watch thread, and runs no command: should_quit and the shared hint are
\* as they were.
C15_ReadErrorRunsNoCommand ==
    [][(shell = "command" /\ read_error /\ shell' # shell) =>
           /\ shell' = "read"
           /\ UNCHANGED << should_quit, failed_exercise_hint, mutex, pc >>
      ]_vars

\* C16: setting should_quit interrupts nothing: a pass in flight returns its
\* result as without the flag; the flag is read only at the check that ends
\* a turn of the loop, when the batch is exhausted, every pass of the turn
\* has returned and the pending exercises are cleared; so Unfinished is
\* never returned with a pass in progress.
C16_QuitIsCooperative ==
    /\ [](pc \in { "check", "Unfinished" } =>
              /\ events = <<>>
              /\ event = NoEvent
              /\ pending_exercises = <<>>
              /\ v_exercises = <<>>
              /\ attempted = <<>>)
    /\ [][(pc = "verify" /\ pc' # pc) =>
              /\ pc' = "match"
              /\ state' \in { AllExercisesDone } \cup { Failed(i) : i \in Range(v_exercises) }
         ]_vars
    /\ [][(pc' = "Unfinished" /\ pc # "Unfinished") => (pc = "check" /\ should_quit)]_vars

\* The flag was set during a pass; the pass has returned Failed and the
\* batch has more events, which the loop goes on to.
C16_Witness ==
    /\ should_quit
    /\ pc = "match"
    /\ state.tag = "Failed"
    /\ events # <<>>

\* C17: the shell reads the shared hint and the watch thread writes it after
\* a Failed pass under the mutex only, never both at a time; the shell does
\* not hold the mutex while it waits in read_line, nor the watch thread
\* while it waits in recv_timeout or runs a pass; and whoever holds the
\* mutex can release it with its next step, waiting for nothing, so neither
\* blocks the other for ever.
C17_LockDiscipline ==
    /\ [](/\ mutex = "shell" <=> shell = "print"
          /\ mutex = "watch" <=> pc = "store"
          /\ ~ (shell = "print" /\ pc = "store")
          /\ shell \in { "read", "command", "lock" } => mutex # "shell"
          /\ pc \in { "recv", "for", "initial_verify", "verify", "match", "check" }
                 => mutex # "watch"
          /\ (mutex = "shell" /\ pc \notin Terminal) => ENABLED HintPrint
          /\ mutex = "watch" => ENABLED StoreHint)
    /\ [][(failed_exercise_hint' # failed_exercise_hint /\ shell # "unspawned") =>
              (mutex = "watch" /\ mutex' = "free")]_vars

\* The shell prints the hint under the mutex while the watch thread, back
\* from a Failed pass, waits for it.
C17_Witness ==
    /\ shell = "print"
    /\ mutex = "shell"
    /\ pc = "match"
    /\ state.tag = "Failed"

\* C18: the sequence a pass of the loop is given has no exercise twice and
\* keeps the order of the registry; it holds exactly the exercises that do
\* not look done (an unreadable one among them) or whose path ends the
\* changed path; the progress pair is (num_done, total) with total the size
\* of the registry and num_done + |pending| = total, so that
\* 0 <= num_done <= total and the subtraction does not underflow.
C18_PendingSequence ==
    pc = "verify" =>
        /\ \A k \in 1 .. Len(v_exercises) : v_exercises[k] \in ExIds
        /\ \A k, l \in 1 .. Len(v_exercises) : k < l => v_exercises[k] < v_exercises[l]
        /\ \A i \in ExIds :
               (\E k \in 1 .. Len(v_exercises) : v_exercises[k] = i)
                   <=> (disk[i].looks # "done" \/ EndsWith(event.path, exercises[i].path))
        /\ Len(pending_exercises) <= Len(exercises)
        /\ v_progress[2] = Len(exercises)
        /\ v_progress[1] + Len(v_exercises) = v_progress[2]
        /\ 0 <= v_progress[1] /\ v_progress[1] <= v_progress[2]

\* A pass over two of three exercises, one of them looking done and touched.
C18_Witness ==
    /\ pc = "verify"
    /\ v_progress = << 1, 3 >>
    /\ \E k \in 1 .. Len(v_exercises) :
           disk[v_exercises[k]].looks = "done" /\ Touches(event, v_exercises[k])

\* The pending exercises as a function of the files and the changed path:
\* the registry from exercise i on, filtered.
RECURSIVE PendingFrom(_, _, _)
PendingFrom(i, files, path) ==
    IF i > Len(exercises)
    THEN <<>>
    ELSE (IF files[i].looks # "done" \/ EndsWith(path, exercises[i].path)
          THEN << i >>
          ELSE <<>>) \o PendingFrom(i + 1, files, path)

\* C19: the pending exercises do not carry over from pass to pass: they are
\* empty whenever watch() waits in recv_timeout, takes the next event of a
\* batch or checks the flag, a Failed pass being followed by clear(); so
\* what a pass is given is a function of the changed path and the files as
\* they are, the same for the same path and files whatever came before.
C19_PendingNotCarried ==
    /\ pc \in { "recv", "for", "check", "Unfinished" } => pending_exercises = <<>>
    /\ pc = "verify" => pending_exercises = PendingFrom(1, disk, event.path)

\* A pass that is not given the exercise the pass before it failed on.
C19_Witness ==
    /\ pc = "verify"
    /\ state.tag = "Failed"
    /\ pending_exercises # <<>>
    /\ state.exercise \notin Range(pending_exercises)

\* The event is of kind Any and its file name ends in .rs.
RsChange(e) ==
    /\ e.kind = "Any"
    /\ e.path # <<>>
    /\ LET file == e.path[Len(e.path)]
       IN  Len(file) >= 2 /\ file[Len(file)] = "rs"

\* C20: an event of a batch brings a recomputation and a pass only when its
\* kind is Any and its path has the extension rs; any other event is passed
\* over with no pass and with the shared hint and the pending exercises as
\* they were; the batch exhausted, the loop goes to the should_quit check
\* and from there back to recv_timeout (or returns Unfinished on quit).
C20_EventFilter ==
    /\ [](pc \in { "verify", "match", "store" } => RsChange(event))
    /\ [][(pc = "for" /\ events # <<>> /\ events' # events /\ ~ RsChange(Head(events))) =>
              /\ pc' = "for"
              /\ UNCHANGED << failed_exercise_hint, pending_exercises, state,
                              v_exercises, attempted >>
         ]_vars
    /\ [][(pc = "for" /\ events = <<>> /\ pc' # pc) =>
              /\ pc' = "check"
              /\ UNCHANGED << failed_exercise_hint, pending_exercises, state >>
         ]_vars
    /\ [][(pc = "check" /\ received = "Events" /\ pc' # pc) =>
              pc' = IF should_quit THEN "Unfinished" ELSE "recv"]_vars

\* The last event of a batch, a continuous write to ex1.rs, has been passed
\* over: no pass is running and none has left anything pending.
C20_Witness ==
    /\ pc = "for"
    /\ events = <<>>
    /\ event = [path |-> Abs(Ex1Path), kind |-> "AnyContinuous"]
    /\ v_exercises = <<>>
    /\ pending_exercises = <<>>

====
